---- MODULE Spec2Model ----
(***************************************************************************)
(* Model of the validator-info scripts:                                    *)
(*   scripts/validate_many.py          (Record Validator and Batch Runner) *)
(*   scripts/generate_validators_json.py  (Registry Aggregator)            *)
(*                                                                         *)
(* Python strings are sequences of one-character strings, so that strip,   *)
(* startswith, endswith, basename, hex and the substring test are computed *)
(* and not assumed.  A JSON value is a record [type, val] whose type is    *)
(* the name of the Python type json.loads gives it.                        *)
(***************************************************************************)
EXTENDS Integers, Sequences, FiniteSets, TLC

VARIABLES
    dir,        \* the network directory: filename -> file
    example,    \* the reference example file read by check_schema
    chain,      \* the staking contract: validator id -> <<secp bytes, bls bytes>>
    args,       \* parsed command line: [filenames, verbose]
    pc,         \* position of main
    filenames,  \* main: the working file list
    idx,        \* main: number of loop iterations completed
    problems,   \* main: filenames whose verdict was false
    outputs,    \* main: the reports kept for printing
    stdout,     \* everything printed so far
    raised,     \* the exception that left main, if any
    calls,      \* history: one entry per check_filename call made by main
    call,       \* a direct call of check_schema, check_logo or read_validators
    ret,        \* the outcome of that direct call
    testnet,    \* the testnet directory: filename -> file
    agg,        \* the runs of generate_validators_json.py so far
    prev        \* history: the run of validate_many.py before this one

vars == <<dir, example, chain, args, pc, filenames, idx, problems, outputs,
          stdout, raised, calls, call, ret, testnet, agg, prev>>

-----------------------------------------------------------------------------
(* Bounds *)

\* the largest number of files in a scanned directory or in a --filenames list
MaxFiles == 2

\* the largest number of runs of generate_validators_json.py
MaxRuns == 2

-----------------------------------------------------------------------------
(* Text *)

Whitespace == {" ", "\t", "\n"}

RECURSIVE LStrip(_)
LStrip(s) ==
    IF s # <<>> /\ Head(s) \in Whitespace THEN LStrip(Tail(s)) ELSE s

RECURSIVE RStrip(_)
RStrip(s) ==
    IF s # <<>> /\ s[Len(s)] \in Whitespace
    THEN RStrip(SubSeq(s, 1, Len(s) - 1))
    ELSE s

\* str.strip()
Strip(s) == RStrip(LStrip(s))

\* str.startswith(p)
StartsWith(s, p) == Len(s) >= Len(p) /\ SubSeq(s, 1, Len(p)) = p

\* str.endswith(p)
EndsWith(s, p) ==
    Len(s) >= Len(p) /\ SubSeq(s, Len(s) - Len(p) + 1, Len(s)) = p

\* sub in s, for two strings
Contains(s, sub) ==
    \E i \in 1..(Len(s) - Len(sub) + 1) : SubSeq(s, i, i + Len(sub) - 1) = sub

\* os.path.basename: what follows the last "/"
RECURSIVE Basename(_)
Basename(p) ==
    IF \E i \in 1..Len(p) : p[i] = "/"
    THEN Basename(Tail(p))
    ELSE p

HexDigits == <<"0", "1", "2", "3", "4", "5", "6", "7",
               "8", "9", "a", "b", "c", "d", "e", "f">>

\* bytes.hex(): two lowercase digits per byte, no leading marker
RECURSIVE Hex(_)
Hex(bytes) ==
    IF bytes = <<>> THEN <<>>
    ELSE <<HexDigits[(Head(bytes) \div 16) + 1],
           HexDigits[(Head(bytes) % 16) + 1]>> \o Hex(Tail(bytes))

DotJson == <<".", "j", "s", "o", "n">>
HttpsPrefix == <<"h", "t", "t", "p", "s", ":", "/", "/">>
HttpPrefix == <<"h", "t", "t", "p", ":", "/", "/">>
ImagePrefix == <<"i", "m", "a", "g", "e", "/">>

-----------------------------------------------------------------------------
(* JSON values as json.loads returns them *)

JStr(s) == [type |-> "str", val |-> s]
JInt(n) == [type |-> "int", val |-> n]
JBool(b) == [type |-> "bool", val |-> b]
JNone == [type |-> "NoneType", val |-> <<>>]
JList(items) == [type |-> "list", val |-> items]
\* a dict keeps its keys in insertion order: a sequence of <<key, value>>
JDict(pairs) == [type |-> "dict", val |-> pairs]

IsStr(v) == v.type = "str"
IsDict(v) == v.type = "dict"

Keys(d) == [i \in 1..Len(d.val) |-> d.val[i][1]]
HasKey(d, k) == \E i \in 1..Len(d.val) : d.val[i][1] = k
Lookup(d, k) == d.val[CHOOSE i \in 1..Len(d.val) : d.val[i][1] = k][2]

\* dict.get(k, default)
Get(d, k, default) == IF HasKey(d, k) THEN Lookup(d, k) ELSE default

\* a report line
Msg(tag, val) == [tag |-> tag, val |-> val]

\* the outcome of a call: a returned value or a propagating exception, with
\* the outbound requests the call issued (fx)
Return(v, fx) == [kind |-> "return", val |-> v, fx |-> fx]
Raise(exc, line, fx) == [kind |-> "raise", val |-> <<exc, line>>, fx |-> fx]

\* a file: open() fails, json.loads fails, or json.loads gives data
IOErrorFile == [st |-> "ioerror", data |-> JNone]
BadJsonFile == [st |-> "badjson", data |-> JNone]
JsonFile(v) == [st |-> "json", data |-> v]

-----------------------------------------------------------------------------
(* check_schema *)

\* key in test_data, for the types that support it (dict: a key, list: an
\* element equal to the string, str: a substring)
KeyIn(key, test_data) ==
    CASE test_data.type = "dict" -> HasKey(test_data, key)
      [] test_data.type = "list" ->
            \E i \in 1..Len(test_data.val) :
                IsStr(test_data.val[i]) /\ test_data.val[i].val = key
      [] test_data.type = "str" -> Contains(test_data.val, key)
      [] OTHER -> FALSE

\* the values `in` raises TypeError on
NotIterable(v) == v.type \in {"int", "float", "bool", "NoneType"}

\* mutant: not isinstance(test_value, type(example_value)), under which a
\* bool passes for an int
TypeDiffers_isinstance(test_value, example_value) ==
    ~(\/ test_value.type = example_value.type
      \/ test_value.type = "bool" /\ example_value.type = "int")

\* type(test_value) is not type(example_value)
TypeDiffers(test_value, example_value) == test_value.type # example_value.type

\* the loop over example.items(): the pairs still to visit, ok and output so far
RECURSIVE SchemaLoop(_, _, _, _)
SchemaLoop(pairs, test_data, ok, output) ==
    IF pairs = <<>> THEN Return([ok |-> ok, output |-> output], <<>>)
    ELSE LET key == Head(pairs)[1]
             example_value == Head(pairs)[2]
         IN IF NotIterable(test_data) THEN Raise("TypeError", 45, <<>>)
            ELSE IF ~KeyIn(key, test_data)
            THEN SchemaLoop(Tail(pairs), test_data, FALSE,
                            Append(output, Msg("missing_field", key)))
            ELSE IF ~IsDict(test_data) THEN Raise("TypeError", 49, <<>>)
            ELSE LET test_value == Lookup(test_data, key)
                 IN IF TypeDiffers(test_value, example_value)
                    THEN SchemaLoop(Tail(pairs), test_data, FALSE,
                             Append(output,
                                 Msg("type_mismatch",
                                     <<key, example_value.type, test_value.type>>)))
                    ELSE SchemaLoop(Tail(pairs), test_data, ok, output)

\* the loop over test_data.keys(): one warning per key the example lacks
ExtraWarnings(test_data, ex) ==
    LET ks == SelectSeq(Keys(test_data), LAMBDA k : ~HasKey(ex, k))
    IN [i \in 1..Len(ks) |-> Msg("extra_field", ks[i])]

\* check_schema(test_data), reading the example from example_file
CheckSchema(example_file, test_data) ==
    IF example_file.st = "ioerror" THEN Raise("FileNotFoundError", 38, <<>>)
    ELSE IF example_file.st = "badjson" THEN Raise("JSONDecodeError", 39, <<>>)
    ELSE LET ex == example_file.data
         IN IF ~IsDict(ex) THEN Raise("AttributeError", 44, <<>>)
            ELSE LET loop == SchemaLoop(ex.val, test_data, TRUE, <<>>)
                 IN IF loop.kind = "raise" THEN loop
                    ELSE IF ~IsDict(test_data)
                    THEN Raise("AttributeError", 56, <<>>)
                    ELSE Return([ok |-> loop.val.ok,
                                 output |-> loop.val.output
                                            \o ExtraWarnings(test_data, ex)],
                                <<>>)

-----------------------------------------------------------------------------
(* check_logo *)

\* what requests.get gives: an exception (connection error, timeout, invalid
\* URL) or a response with a status code and headers (<<>>: no Content-Type)
FetchException == [kind |-> "exception", status |-> 0, headers |-> <<>>]
Response(status, headers) ==
    [kind |-> "response", status |-> status, headers |-> headers]

\* resp.headers.get("Content-Type", "")
ContentType(resp) == IF resp.headers = <<>> THEN <<>> ELSE resp.headers[1]

\* mutant: only the error statuses fail
StatusBad_errors(resp) == resp.status >= 400

\* resp.status_code != 200
StatusBad(resp) == resp.status # 200

\* not logo_url.startswith("https://")
SchemeBad(url) == ~StartsWith(url, HttpsPrefix)

\* check_logo(logo_url), fetch being the answer of requests.get
CheckLogo(logo_url, fetch) ==
    LET empty == ~IsStr(logo_url) \/ Strip(logo_url.val) = <<>>
        out1 == IF empty THEN <<Msg("logo_empty", <<>>)>> ELSE <<>>
    IN IF ~IsStr(logo_url) THEN Raise("AttributeError", 69, <<>>)
       ELSE LET scheme == SchemeBad(logo_url.val)
                out2 == out1 \o (IF scheme THEN <<Msg("logo_scheme", <<>>)>>
                                 ELSE <<>>)
                ok2 == ~empty /\ ~scheme
                fx == <<<<"GET", logo_url.val>>>>
            IN IF fetch.kind = "exception"
               THEN Return([ok |-> FALSE,
                            output |-> Append(out2, Msg("logo_fetch_failed", <<>>))],
                           fx)
               ELSE LET content_type == ContentType(fetch)
                        status == StatusBad(fetch)
                        image == ~StartsWith(content_type, ImagePrefix)
                        out3 == out2 \o (IF status
                                         THEN <<Msg("logo_http_status", fetch.status)>>
                                         ELSE <<>>)
                        out4 == out3 \o (IF image
                                         THEN <<Msg("logo_not_image", content_type)>>
                                         ELSE <<>>)
                    IN Return([ok |-> ok2 /\ ~status /\ ~image, output |-> out4],
                              fx)

-----------------------------------------------------------------------------
(* Field names, and the reference example *)

K_id == <<"i", "d">>
K_name == <<"n", "a", "m", "e">>
K_secp == <<"s", "e", "c", "p">>
K_bls == <<"b", "l", "s">>
K_logo == <<"l", "o", "g", "o">>
K_x == <<"x">>

\* example/0000...00.json: the fields of the reference example and their types
ExampleRecord ==
    JDict(<< <<K_id, JInt(0)>>, <<K_name, JStr(<<>>)>>, <<K_secp, JStr(<<>>)>>,
             <<K_bls, JStr(<<>>)>>, <<K_logo, JStr(<<>>)>> >>)

\* a shorter example, for direct calls of check_schema
ShortExample ==
    JDict(<< <<K_id, JInt(0)>>, <<K_name, JStr(<<>>)>>, <<K_logo, JStr(<<>>)>> >>)

UrlL == HttpsPrefix \o <<"l">>

-----------------------------------------------------------------------------
(* get_validator_keys and check_filename *)

NETWORK == <<"m", "a", "i", "n", "n", "e", "t">>

\* call_getter(w3, "get_validator", ...)[10], [11]: the secp and bls bytes
\* of a validator; a validator the contract does not know has empty keys
ValidatorInfo(ch, id) ==
    IF id.type = "int" /\ id.val \in DOMAIN ch THEN ch[id.val]
    ELSE <<<<>>, <<>>>>

\* mutant: a failed read is caught and gives empty keys
GetValidatorKeys_caught(ch, id, rpc) ==
    IF rpc = "down" THEN Return(<<<<>>, <<>>>>, <<<<"RPC", id>>>>)
    ELSE Return(<<Hex(ValidatorInfo(ch, id)[1]), Hex(ValidatorInfo(ch, id)[2])>>,
                <<<<"RPC", id>>>>)

\* get_validator_keys(id, network); rpc = "down": the transport or the
\* contract call fails and the exception of call_getter propagates
GetValidatorKeys(ch, id, rpc) ==
    IF rpc = "down" THEN Raise("ConnectionError", 28, <<<<"RPC", id>>>>)
    ELSE LET validator_info == ValidatorInfo(ch, id)
         IN Return(<<Hex(validator_info[1]), Hex(validator_info[2])>>,
                   <<<<"RPC", id>>>>)

\* f"{value}" for the values a record's secp can hold
Format(v) ==
    CASE v.type = "str" -> v.val
      [] v.type = "NoneType" -> <<"N", "o", "n", "e">>
      [] v.type = "int" /\ v.val \in 0..9 -> <<HexDigits[v.val + 1]>>
      [] OTHER -> <<"?">>

\* a path names the same file with and without a leading "./"
RECURSIVE NormPath(_)
NormPath(filename) ==
    IF StartsWith(filename, <<".", "/">>)
    THEN NormPath(SubSeq(filename, 3, Len(filename)))
    ELSE filename

\* open(os.path.join(BASE_DIR, network, filename)): a name the directory
\* lacks cannot be opened
FileAt(d, filename) ==
    IF NormPath(filename) \in DOMAIN d THEN d[NormPath(filename)] ELSE IOErrorFile

\* str == value, for a chain key (a str) and a record's field
SameStr(s, v) == IsStr(v) /\ v.val = s

\* the name check: the verdict so far and the line it adds
NameCheck(data) ==
    LET name_value == Get(data, K_name, JStr(<<>>))
    IN IF ~IsStr(name_value) \/ Strip(name_value.val) = <<>>
       THEN [ok |-> FALSE, output |-> <<Msg("name_invalid", <<>>)>>]
       ELSE [ok |-> TRUE, output |-> <<Msg("name_ok", Strip(name_value.val))>>]

\* the key comparison, for secp or bls
KeyCheck(which, chain_key, local) ==
    IF ~SameStr(chain_key, local)
    THEN [ok |-> FALSE,
          output |-> <<Msg(which \o "_mismatch", <<local, chain_key>>)>>]
    ELSE [ok |-> TRUE, output |-> <<Msg(which \o "_ok", <<>>)>>]

\* mutant: the two names are compared without regard to case
FilenameCheck_nocase(basename, secp_local) ==
    LET expected_filename == Format(secp_local) \o DotJson
        lower(s) == [i \in 1..Len(s) |->
                        CASE s[i] = "A" -> "a" [] s[i] = "B" -> "b"
                          [] OTHER -> s[i]]
    IN IF lower(basename) # lower(expected_filename)
       THEN [ok |-> FALSE,
             output |-> <<Msg("filename_mismatch", <<expected_filename, basename>>)>>]
       ELSE [ok |-> TRUE, output |-> <<Msg("filename_ok", <<>>)>>]

\* the filename check
FilenameCheck(basename, secp_local) ==
    LET expected_filename == Format(secp_local) \o DotJson
    IN IF basename # expected_filename
       THEN [ok |-> FALSE,
             output |-> <<Msg("filename_mismatch", <<expected_filename, basename>>)>>]
       ELSE [ok |-> TRUE, output |-> <<Msg("filename_ok", <<>>)>>]

\* mutant: the filename check assigns is_valid
AllValid_last(name, logo_ok, secp, bls, fname) == fname.ok

\* is_valid after the five checks
AllValid(name, logo_ok, secp, bls, fname) ==
    name.ok /\ logo_ok /\ secp.ok /\ bls.ok /\ fname.ok

\* the report after the five checks; the banner closes a valid one
FinalOutput(output, is_valid) ==
    IF is_valid THEN Append(output, Msg("banner", <<>>)) ELSE output

\* lines 135-168: the logo, identity and filename checks, given the result
\* of the name check
LogoOnwards(ch, data, basename, output, name, fetch, rpc) ==
    LET validator_id == Get(data, K_id, JNone)
        secp_local == Get(data, K_secp, JNone)
        bls_local == Get(data, K_bls, JNone)
        logo == Get(data, K_logo, JNone)
        logo_res == CheckLogo(logo, fetch)
    IN IF logo_res.kind = "raise" THEN logo_res
       ELSE LET logo_ok == logo_res.val.ok
                logo_out == IF logo_ok THEN <<Msg("logo_ok", <<>>)>>
                            ELSE Append(logo_res.val.output,
                                        Msg("logo_failed", logo))
                keys == GetValidatorKeys(ch, validator_id, rpc)
                fx == logo_res.fx \o keys.fx
            IN IF keys.kind = "raise" THEN Raise(keys.val[1], keys.val[2], fx)
               ELSE LET secp == KeyCheck("secp", keys.val[1], secp_local)
                        bls == KeyCheck("bls", keys.val[2], bls_local)
                        fname == FilenameCheck(basename, secp_local)
                        is_valid == AllValid(name, logo_ok, secp, bls, fname)
                        out == output \o name.output \o logo_out \o secp.output
                                  \o bls.output \o fname.output
                    IN Return([ok |-> is_valid,
                               output |-> FinalOutput(out, is_valid)], fx)

\* mutant: a failed name check returns at once
AfterSchema_name_terminal(ch, data, basename, output, fetch, rpc) ==
    LET name == NameCheck(data)
    IN IF ~name.ok
       THEN Return([ok |-> FALSE, output |-> output \o name.output], <<>>)
       ELSE LogoOnwards(ch, data, basename, output, name, fetch, rpc)

\* lines 127-168: the checks that follow a passed schema check
AfterSchema(ch, data, basename, output, fetch, rpc) ==
    LogoOnwards(ch, data, basename, output, NameCheck(data), fetch, rpc)

\* mutant: a failed schema check is recorded and the checks go on
SchemaGate_continue(schema, output, rest) == rest

\* lines 118-125: what a failed schema check does to the rest of the call
SchemaGate(schema, output, rest) ==
    IF schema.val.ok THEN rest
    ELSE Return([ok |-> FALSE,
                 output |-> (output \o schema.val.output)
                                \o <<Msg("schema_failed", <<>>)>>], <<>>)

\* mutant: only json.JSONDecodeError is caught
LoadError_uncaught(file) ==
    IF file.st = "badjson"
    THEN Return([ok |-> FALSE, output |-> <<Msg("invalid_json", <<>>)>>], <<>>)
    ELSE Raise("FileNotFoundError", 98, <<>>)

\* mutant: the handlers return is_valid, which is still True
LoadError_valid(file) ==
    IF file.st = "badjson"
    THEN Return([ok |-> TRUE, output |-> <<Msg("invalid_json", <<>>)>>], <<>>)
    ELSE Return([ok |-> TRUE, output |-> <<Msg("read_failed", <<>>)>>], <<>>)

\* lines 101-106: the two handlers of a failed load
LoadError(file) ==
    IF file.st = "badjson"
    THEN Return([ok |-> FALSE, output |-> <<Msg("invalid_json", <<>>)>>], <<>>)
    ELSE Return([ok |-> FALSE, output |-> <<Msg("read_failed", <<>>)>>], <<>>)

\* check_filename(network, filename); fetch and rpc are what the web and the
\* RPC endpoint answer if they are asked
CheckFilename(d, ex_file, ch, filename, fetch, rpc) ==
    LET file == FileAt(d, filename)
        basename == Basename(filename)
    IN IF file.st # "json" THEN LoadError(file)
       ELSE LET data == file.data
            IN IF ~IsDict(data) THEN Raise("AttributeError", 108, <<>>)
               ELSE LET header ==
                            << Msg("network", NETWORK),
                               Msg("validator_id", Get(data, K_id, JNone)),
                               Msg("secp", Get(data, K_secp, JNone)),
                               Msg("bls", Get(data, K_bls, JNone)),
                               Msg("json_valid", <<>>) >>
                        schema == CheckSchema(ex_file, data)
                    IN IF schema.kind = "raise" THEN schema
                       ELSE SchemaGate(schema, header,
                                AfterSchema(ch, data, basename,
                                    Append(header, Msg("schema_ok", <<>>)),
                                    fetch, rpc))

-----------------------------------------------------------------------------
(* Direct calls of check_schema and check_logo *)

NoCall == [fn |-> "none"]
NoRet == [kind |-> "none"]
\* the aggregator has not run; validate_many.py has not run before
NoAgg == [runs |-> 0, status |-> "none", stdout |-> <<>>]
NoPrev == [pc |-> "none", calls |-> <<>>, problems |-> <<>>]
Pending == [kind |-> "pending"]
Done(out, fetch) == [kind |-> "done", out |-> out, fetch |-> fetch]

\* an optional field: <<>> (absent) or <<value>>
Field(k, opt) == IF opt = <<>> THEN <<>> ELSE << <<k, opt[1]>> >>

IdOptions == {<<>>, <<JInt(1)>>, <<JStr(<<"1">>)>>, <<JBool(TRUE)>>}
NameOptions == {<<>>, <<JStr(<<>>)>>, <<JStr(<<"n">>)>>, <<JNone>>}
LogoOptions == {<<>>, <<JStr(UrlL)>>, <<JInt(1)>>}
KeyOptions == {<<>>, <<JStr(<<"a", "b">>)>>}
ExtraOptions == {<<>>, <<JStr(<<"y">>)>>}

\* the records check_schema is called on
SchemaRecords ==
    { JDict(Field(K_id, i) \o Field(K_name, n) \o Field(K_secp, k)
            \o Field(K_bls, k) \o Field(K_logo, l) \o Field(K_x, x)) :
        i \in IdOptions, n \in NameOptions, l \in LogoOptions,
        k \in KeyOptions, x \in ExtraOptions }

\* parsed JSON that is no object
NonMappings ==
    { JList(<<>>), JList(<<JStr(K_id)>>), JStr(<<"i", "d", "s">>), JStr(<<"z">>),
      JInt(1), JNone }

SchemaExamples == {IOErrorFile, JsonFile(ShortExample), JsonFile(ExampleRecord)}

LogoUrls ==
    { <<>>, <<" ">>, UrlL, UrlL \o <<" ">>, <<" ">> \o UrlL, HttpsPrefix,
      HttpPrefix \o <<"l">>, <<"l">>, HttpsPrefix \o <<"m">>,
      <<"H", "T", "T", "P", "S", ":", "/", "/", "l">> }

LogoValues == {JStr(u) : u \in LogoUrls} \cup {JNone, JInt(1)}

ImagePng == ImagePrefix \o <<"p", "n", "g">>
TextHtml == <<"t", "e", "x", "t", "/", "h", "t", "m", "l">>
HeaderSets == {<<>>, <<ImagePng>>, <<TextHtml>>}

\* requests.get raises on a URL it cannot prepare: after the leading
\* whitespace it drops, the URL needs an http or https scheme and a host
CanFetch(url) ==
    LET u == LStrip(url)
        lower == [i \in 1..Len(u) |->
                    CASE u[i] = "H" -> "h" [] u[i] = "T" -> "t"
                      [] u[i] = "P" -> "p" [] u[i] = "S" -> "s"
                      [] OTHER -> u[i]]
    IN \/ StartsWith(lower, HttpsPrefix) /\ Len(lower) > Len(HttpsPrefix)
       \/ StartsWith(lower, HttpPrefix) /\ Len(lower) > Len(HttpPrefix)

\* the answers requests.get(logo_url) can give, for the given status codes
FetchOutcomes(logo_url, statuses, headers) ==
    IF IsStr(logo_url) /\ CanFetch(logo_url.val)
    THEN {FetchException} \cup {Response(st, h) : st \in statuses, h \in headers}
    ELSE {FetchException}

Idle ==
    /\ dir = <<>> /\ example = IOErrorFile /\ chain = <<>>
    /\ args = [given |-> FALSE, names |-> <<>>, verbose |-> FALSE]
    /\ pc = "idle" /\ filenames = <<>> /\ idx = 0
    /\ problems = <<>> /\ outputs = <<>> /\ stdout = <<>>
    /\ raised = [exc |-> "none", line |-> 0, carried |-> <<>>]
    /\ calls = <<>>
    /\ testnet = <<>> /\ agg = NoAgg /\ prev = NoPrev

Main == <<dir, example, chain, args, pc, filenames, idx, problems, outputs,
          stdout, raised, calls, testnet, agg, prev>>

InitSchema ==
    /\ Idle
    /\ \E e \in SchemaExamples, d \in SchemaRecords \cup NonMappings :
          call = [fn |-> "check_schema", example_file |-> e, arg |-> d]
    /\ ret = Pending

CallCheckSchema ==
    /\ call.fn = "check_schema" /\ ret.kind = "pending"
    /\ ret' = Done(CheckSchema(call.example_file, call.arg), FetchException)
    /\ UNCHANGED <<Main, call>>

SpecSchema == InitSchema /\ [][CallCheckSchema]_vars

InitLogo ==
    /\ Idle
    /\ \E v \in LogoValues : call = [fn |-> "check_logo", arg |-> v]
    /\ ret = Pending

CallCheckLogo ==
    /\ call.fn = "check_logo" /\ ret.kind = "pending"
    /\ \E fetch \in FetchOutcomes(call.arg, {200, 204, 403, 404, 500}, HeaderSets) :
          ret' = Done(CheckLogo(call.arg, fetch), fetch)
    /\ UNCHANGED <<Main, call>>

SpecLogo == InitLogo /\ [][CallCheckLogo]_vars

-----------------------------------------------------------------------------
(* main of validate_many.py *)

\* the characters of the model's filenames, in code point order
CodePoints == <<".", "/", "1", "A", "B", "D", "E", "M", "R", "_",
                "a", "b", "c", "d", "e", "f", "i", "j", "l", "m", "n", "o",
                "r", "s", "t", "v", "z">>
Ord(c) == CHOOSE i \in 1..Len(CodePoints) : CodePoints[i] = c

\* s < t for two strings
RECURSIVE StrLess(_, _)
StrLess(s, t) ==
    IF t = <<>> THEN FALSE
    ELSE IF s = <<>> THEN TRUE
    ELSE IF Head(s) # Head(t) THEN Ord(Head(s)) < Ord(Head(t))
    ELSE StrLess(Tail(s), Tail(t))

\* sorted(names)
RECURSIVE Sorted(_)
Sorted(names) ==
    IF names = {} THEN <<>>
    ELSE LET least == CHOOSE x \in names :
                          \A y \in names \ {x} : StrLess(x, y)
         IN <<least>> \o Sorted(names \ {least})

\* get_all_filenames(network)
GetAllFilenames(d) ==
    SelectSeq(Sorted(DOMAIN d), LAMBDA x : EndsWith(x, DotJson))

\* [f + '.json' if not f.endswith('.json') else f for f in filenames]
WithExtension(names) ==
    [i \in 1..Len(names) |->
        IF ~EndsWith(names[i], DotJson) THEN names[i] \o DotJson ELSE names[i]]

\* lines 198-201: what one verdict adds to problems and to outputs
AddProblem(probs, filename, is_valid) ==
    IF ~is_valid THEN Append(probs, filename) ELSE probs
\* mutant: every report is kept, verbose or not
AddOutput_always(outs, output, is_valid, verbose) == Append(outs, output)
AddOutput(outs, output, is_valid, verbose) ==
    IF ~is_valid \/ verbose THEN Append(outs, output) ELSE outs

\* the call issued a request of this kind
Asked(res, kind) == \E i \in 1..Len(res.fx) : res.fx[i][1] = kind

NoException == [exc |-> "none", line |-> 0, carried |-> <<>>]

\* the records of the model's directories
Rec(id, name, secp, bls, logo) ==
    JDict(<< <<K_id, JInt(id)>>, <<K_name, JStr(name)>>, <<K_secp, JStr(secp)>>,
             <<K_bls, JStr(bls)>>, <<K_logo, JStr(logo)>> >>)

F_ab == <<"a", "b">> \o DotJson
F_AB == <<"A", "B">> \o DotJson
F_cd == <<"c", "d">> \o DotJson
F_ef == <<"e", "f">> \o DotJson
F_m1 == <<"m", "1">> \o DotJson
F_bj == <<"b", "j">> \o DotJson
F_dd == <<"d", "d">> \o DotJson
F_ls == <<"l", "s">> \o DotJson
F_README == <<"R", "E", "A", "D", "M", "E">>

\* ab.json conforms; AB.json holds the same record under a name in the wrong
\* case; cd.json has an empty name; ef.json has keys that differ from the
\* chain's (its secp is the file's name with a space after it) and an http
\* logo; m1.json lacks logo, has a number for a name and
\* an extra field; bj.json is no JSON; dd.json cannot be read; ls.json holds
\* a JSON list; README is no .json file
Fixture ==
    (F_ab :> JsonFile(Rec(1, <<"n">>, <<"a", "b">>, <<"c", "d">>, UrlL)))
    @@ (F_AB :> JsonFile(Rec(1, <<"n">>, <<"a", "b">>, <<"c", "d">>, UrlL)))
    @@ (F_cd :> JsonFile(Rec(2, <<>>, <<"c", "d">>, <<"e", "f">>, UrlL)))
    @@ (F_ef :> JsonFile(Rec(1, <<" ", "n", " ">>, <<"e", "f", " ">>, <<"C", "D">>,
                             HttpPrefix \o <<"l">>)))
    @@ (F_m1 :> JsonFile(JDict(<< <<K_id, JInt(1)>>, <<K_name, JInt(1)>>,
                                  <<K_secp, JStr(<<"m", "1">>)>>,
                                  <<K_bls, JStr(<<"c", "d">>)>>,
                                  <<K_x, JStr(<<"y">>)>> >>)))
    @@ (F_bj :> BadJsonFile)
    @@ (F_dd :> IOErrorFile)
    @@ (F_ls :> JsonFile(JList(<<>>)))
    @@ (F_README :> BadJsonFile)

\* the staking contract: validator 1 has keys ab and cd, validator 2 cd and ef
ChainState == (1 :> <<<<171>>, <<205>>>>) @@ (2 :> <<<<205>>, <<239>>>>)

\* names given with --filenames: with and without the extension, one with
\* a directory part, and one (zz) that the directory lacks
ArgNames ==
    {<<".", "/", "a", "b">>, F_AB, <<"c", "d">>, F_bj, <<"l", "s">>, <<"z", "z">>}

Restrict(f, S) == [x \in S |-> f[x]]

\* every list of 1..n names
RECURSIVE Lists(_, _)
Lists(S, n) ==
    IF n = 0 THEN {<<>>}
    ELSE LET shorter == Lists(S, n - 1)
         IN shorter \cup {Append(l, x) : l \in {m \in shorter : Len(m) = n - 1},
                                           x \in S}

Init ==
    /\ \/ /\ \E S \in SUBSET (DOMAIN Fixture) :
                /\ Cardinality(S) \in 1..MaxFiles
                /\ dir = Restrict(Fixture, S)
          /\ \E v \in BOOLEAN :
                args = [given |-> FALSE, names |-> <<>>, verbose |-> v]
       \/ /\ dir = Fixture
          /\ \E l \in Lists(ArgNames, MaxFiles) \ {<<>>}, v \in BOOLEAN :
                args = [given |-> TRUE, names |-> l, verbose |-> v]
    /\ example \in {JsonFile(ExampleRecord), IOErrorFile}
    /\ chain = ChainState
    /\ pc = "start"
    /\ filenames = <<>> /\ idx = 0
    /\ problems = <<>> /\ outputs = <<>> /\ stdout = <<>>
    /\ raised = NoException
    /\ calls = <<>>
    /\ call = NoCall /\ ret = NoRet
    /\ testnet = <<>> /\ agg = NoAgg /\ prev = NoPrev

\* lines 186-193
ResolveFilenames ==
    /\ pc = "start"
    /\ filenames' = IF ~args.given THEN GetAllFilenames(dir)
                    ELSE WithExtension(args.names)
    /\ problems' = <<>>
    /\ outputs' = <<>>
    /\ pc' = "loop"
    /\ UNCHANGED <<dir, example, chain, args, idx, stdout, raised, calls, call, ret,
                   testnet, agg, prev>>

\* lines 195-201: one iteration of the loop
CheckNext ==
    /\ pc = "loop" /\ idx < Len(filenames)
    /\ LET filename == filenames[idx + 1]
           file == FileAt(dir, filename)
           logo == IF file.st = "json" /\ IsDict(file.data)
                   THEN Get(file.data, K_logo, JNone) ELSE JNone
       IN \E fetch \in FetchOutcomes(logo, {200, 404}, {<<ImagePng>>, <<TextHtml>>}),
             rpc \in {"up", "down"} :
            LET res == CheckFilename(dir, example, chain, filename, fetch, rpc)
            IN /\ stdout' = Append(stdout, Msg("checking", filename))
               /\ calls' = Append(calls, [filename |-> filename, res |-> res,
                                          fetch |-> IF Asked(res, "GET")
                                                    THEN <<fetch>> ELSE <<>>,
                                          rpc |-> IF Asked(res, "RPC") THEN rpc
                                                  ELSE "unasked"])
               /\ IF res.kind = "raise"
                  THEN /\ pc' = "aborted"
                       /\ raised' = [exc |-> res.val[1], line |-> res.val[2],
                                     carried |-> <<>>]
                       /\ UNCHANGED <<idx, problems, outputs>>
                  ELSE /\ problems' = AddProblem(problems, filename, res.val.ok)
                       /\ outputs' = AddOutput(outputs, res.val.output,
                                               res.val.ok, args.verbose)
                       /\ idx' = idx + 1
                       /\ UNCHANGED <<pc, raised>>
    /\ UNCHANGED <<dir, example, chain, args, filenames, call, ret,
                   testnet, agg, prev>>

\* line 203
PrintReports ==
    /\ pc = "loop" /\ idx = Len(filenames)
    /\ stdout' = Append(stdout, Msg("reports", outputs))
    /\ pc' = "summary"
    /\ UNCHANGED <<dir, example, chain, args, filenames, idx, problems, outputs,
                   raised, calls, call, ret,
                   testnet, agg, prev>>

\* lines 205-206
RaiseFailure ==
    /\ pc = "summary" /\ Len(problems) > 0
    /\ raised' = [exc |-> "Exception", line |-> 206, carried |-> problems]
    /\ pc' = "failed"
    /\ UNCHANGED <<dir, example, chain, args, filenames, idx, problems, outputs,
                   stdout, calls, call, ret,
                   testnet, agg, prev>>

\* lines 207-208
ReportSuccess ==
    /\ pc = "summary" /\ ~(Len(problems) > 0)
    /\ stdout' = Append(stdout, Msg("success", <<>>))
    /\ pc' = "done"
    /\ UNCHANGED <<dir, example, chain, args, filenames, idx, problems, outputs,
                   raised, calls, call, ret,
                   testnet, agg, prev>>

Next ==
    \/ ResolveFilenames
    \/ CheckNext
    \/ PrintReports
    \/ RaiseFailure
    \/ ReportSuccess

Spec == Init /\ [][Next]_vars

\* validate_many.py run on a --filenames list, and run once more on a
\* permutation of that list: the same directory, reference example and
\* contract
PermNames == ArgNames \ {F_AB, <<"z", "z">>}

InitPerm ==
    /\ dir = Fixture
    /\ \E l \in Lists(PermNames, MaxFiles) \ {<<>>} :
          args = [given |-> TRUE, names |-> l, verbose |-> FALSE]
    /\ example = JsonFile(ExampleRecord)
    /\ chain = ChainState
    /\ pc = "start"
    /\ filenames = <<>> /\ idx = 0
    /\ problems = <<>> /\ outputs = <<>> /\ stdout = <<>>
    /\ raised = NoException
    /\ calls = <<>>
    /\ call = NoCall /\ ret = NoRet
    /\ testnet = <<>> /\ agg = NoAgg /\ prev = NoPrev

\* the run has ended; the next process starts with the list permuted
RunPermuted ==
    /\ prev.pc = "none" /\ pc \in {"done", "failed", "aborted"}
    /\ \E p \in [1..Len(args.names) -> 1..Len(args.names)] :
          /\ \A i, j \in 1..Len(args.names) : p[i] = p[j] => i = j
          /\ args' = [args EXCEPT !.names = [i \in 1..Len(args.names) |->
                                                args.names[p[i]]]]
    /\ prev' = [pc |-> pc, calls |-> calls, problems |-> problems]
    /\ pc' = "start"
    /\ filenames' = <<>> /\ idx' = 0
    /\ problems' = <<>> /\ outputs' = <<>> /\ stdout' = <<>>
    /\ raised' = NoException
    /\ calls' = <<>>
    /\ UNCHANGED <<dir, example, chain, call, ret, testnet, agg>>

NextPerm ==
    \/ RunPermuted
    \/ ResolveFilenames
    \/ CheckNext
    \/ PrintReports
    \/ RaiseFailure
    \/ ReportSuccess

SpecPerm == InitPerm /\ [][NextPerm]_vars

-----------------------------------------------------------------------------
(* generate_validators_json.py *)

\* the outcome of a call of the aggregator, with the lines it printed
AggReturn(v, out) == [kind |-> "return", val |-> v, stdout |-> out]
AggRaise(exc, line, out) == [kind |-> "raise", val |-> <<exc, line>>, stdout |-> out]

\* glob.glob(os.path.join(directory, "*.json")): the names that end with
\* .json and do not start with a dot
GlobJson(d) == {f \in DOMAIN d : EndsWith(f, DotJson) /\ Head(f) # "."}

\* glob returns them in the order the file system lists them: any order
Orders(S) ==
    {o \in [1..Cardinality(S) -> S] : \A i, j \in 1..Cardinality(S) : o[i] = o[j] => i = j}

\* data[k] = v: a key the dict holds keeps its place
DictSet(d, k, v) ==
    IF HasKey(d, k)
    THEN JDict([i \in 1..Len(d.val) |-> IF d.val[i][1] = k THEN <<k, v>> ELSE d.val[i]])
    ELSE JDict(Append(d.val, <<k, v>>))

\* validators_dict[secp] = data; the mapping is a sequence of <<key, record>>
\* in insertion order, the key being the secp value as parsed
PutEntry(validators_dict, secp, data) ==
    IF \E i \in 1..Len(validators_dict) : validators_dict[i][1] = secp
    THEN [i \in 1..Len(validators_dict) |->
             IF validators_dict[i][1] = secp THEN <<secp, data>> ELSE validators_dict[i]]
    ELSE Append(validators_dict, <<secp, data>>)

\* lines 18-25: what one parsed file does to the mapping
ReadOne(validators_dict, data) ==
    IF ~IsDict(data) THEN AggRaise("AttributeError", 18, <<>>)
    ELSE LET secp == Get(data, K_secp, JStr(<<>>))
             name == Get(data, K_name, JStr(<<>>))
         IN IF ~IsStr(name) THEN AggRaise("AttributeError", 21, <<>>)
            ELSE LET named == IF Strip(name.val) = <<>>
                              THEN DictSet(data, K_name, secp) ELSE data
                 IN IF secp.type \in {"list", "dict"}
                    THEN AggRaise("TypeError", 25, <<>>)
                    ELSE AggReturn(PutEntry(validators_dict, secp, named), <<>>)

\* lines 12-31: the loop over json_files
RECURSIVE ReadLoop(_, _, _, _)
ReadLoop(d, json_files, validators_dict, out) ==
    IF json_files = <<>> THEN AggReturn(validators_dict, out)
    ELSE LET json_file == Head(json_files)
         IN IF d[json_file].st # "json"
            THEN ReadLoop(d, Tail(json_files), validators_dict,
                          Append(out, Msg("warning", json_file)))
            ELSE LET one == ReadOne(validators_dict, d[json_file].data)
                 IN IF one.kind = "raise"
                    THEN AggRaise(one.val[1], one.val[2], out)
                    ELSE ReadLoop(d, Tail(json_files), one.val, out)

\* read_validators(directory), json_files being what glob returned
ReadValidators(d, json_files) == ReadLoop(d, json_files, <<>>, <<>>)

\* the key json.dump writes for a key of the mapping
DumpKey(k) ==
    CASE k.type = "str" -> k.val
      [] k.type = "NoneType" -> <<"n", "u", "l", "l">>
      [] k.type = "bool" -> IF k.val THEN <<"t", "r", "u", "e">>
                            ELSE <<"f", "a", "l", "s", "e">>
      [] k.type = "int" /\ k.val \in 0..9 -> <<HexDigits[k.val + 1]>>
      [] OTHER -> <<"?">>

\* what json.load gives back from what json.dump(validators_dict) wrote
RECURSIVE Dumped(_, _)
Dumped(validators_dict, acc) ==
    IF validators_dict = <<>> THEN acc
    ELSE Dumped(Tail(validators_dict),
                DictSet(acc, DumpKey(Head(validators_dict)[1]), Head(validators_dict)[2]))

\* write_json(validators_dict, output_file): the directory afterwards
WriteJson(d, output_file, validators_dict) ==
    (output_file :> JsonFile(Dumped(validators_dict, JDict(<<>>)))) @@ d

TESTNET == <<"t", "e", "s", "t", "n", "e", "t">>

\* <network>_validators.json
Artifact(network) ==
    network \o <<"_", "v", "a", "l", "i", "d", "a", "t", "o", "r", "s">> \o DotJson

\* lines 48-51 and 54-57: one network of main: the directory afterwards
\* and the outcome
AggregateNetwork(d, network, json_files) ==
    LET read == ReadValidators(d, json_files)
    IN IF read.kind = "raise" THEN [dir |-> d, out |-> read]
       ELSE [dir |-> WriteJson(d, Artifact(network), read.val),
             out |-> AggReturn(read.val,
                        Append(read.stdout,
                               Msg("generated", <<Artifact(network), Len(read.val)>>)))]

F_a2 == <<"a", "2">> \o DotJson
F_nn == <<"n", "n">> \o DotJson
F_ns == <<"n", "s">> \o DotJson
F_hid == <<".", "h">> \o DotJson

\* the directories read_validators is called on: the files of Fixture, and
\* a2.json, another record with the secp of ab.json; nn.json, a record with
\* no name; ns.json, a record with no secp; .h.json, a hidden file
ReadFixture ==
    Fixture
    @@ (F_a2 :> JsonFile(Rec(3, <<"m">>, <<"a", "b">>, <<"e", "f">>, UrlL)))
    @@ (F_nn :> JsonFile(JDict(<< <<K_id, JInt(4)>>,
                                  <<K_secp, JStr(<<"e", "f">>)>> >>)))
    @@ (F_ns :> JsonFile(JDict(<< <<K_name, JStr(<<"q">>)>> >>)))
    @@ (F_hid :> JsonFile(Rec(5, <<"h">>, <<"h">>, <<"h">>, UrlL)))

ReadDone(out, json_files) == [kind |-> "done", out |-> out, json_files |-> json_files]

InitRead ==
    /\ Idle
    /\ \E S \in SUBSET (DOMAIN ReadFixture) :
          /\ Cardinality(S) \in 0..MaxFiles
          /\ call = [fn |-> "read_validators", directory |-> Restrict(ReadFixture, S)]
    /\ ret = Pending

CallReadValidators ==
    /\ call.fn = "read_validators" /\ ret.kind = "pending"
    /\ \E json_files \in Orders(GlobJson(call.directory)) :
          ret' = ReadDone(ReadValidators(call.directory, json_files), json_files)
    /\ UNCHANGED <<Main, call>>

SpecRead == InitRead /\ [][CallReadValidators]_vars

\* main of generate_validators_json.py, run before validate_many.py starts:
\* mainnet first, then testnet; an exception of read_validators ends the run
AggregatorMain ==
    /\ pc = "start" /\ agg.runs < MaxRuns
    /\ \E mainnet_files \in Orders(GlobJson(dir)),
          testnet_files \in Orders(GlobJson(testnet)) :
          LET m == AggregateNetwork(dir, NETWORK, mainnet_files)
              t == AggregateNetwork(testnet, TESTNET, testnet_files)
          IN IF m.out.kind = "raise"
             THEN /\ agg' = [runs |-> agg.runs + 1, status |-> "raised",
                             stdout |-> m.out.stdout]
                  /\ UNCHANGED <<dir, testnet>>
             ELSE /\ dir' = m.dir
                  /\ testnet' = t.dir
                  /\ agg' = [runs |-> agg.runs + 1,
                             status |-> IF t.out.kind = "raise" THEN "raised" ELSE "ok",
                             stdout |-> m.out.stdout \o t.out.stdout]
    /\ UNCHANGED <<example, chain, args, pc, filenames, idx, problems, outputs,
                   stdout, raised, calls, call, ret, prev>>

\* the network directories the aggregator is run on
AggFiles == {F_ab, F_AB, F_cd, F_bj, F_ls}
TestnetDirs == {<<>>, Restrict(Fixture, {F_cd}), Restrict(Fixture, {F_ls})}

\* a full-directory scan by validate_many.py follows the runs
InitAgg ==
    /\ \E S \in SUBSET AggFiles :
          /\ Cardinality(S) \in 1..MaxFiles
          /\ dir = Restrict(Fixture, S)
    /\ testnet \in TestnetDirs
    /\ args = [given |-> FALSE, names |-> <<>>, verbose |-> FALSE]
    /\ example = JsonFile(ExampleRecord)
    /\ chain = ChainState
    /\ pc = "start"
    /\ filenames = <<>> /\ idx = 0
    /\ problems = <<>> /\ outputs = <<>> /\ stdout = <<>>
    /\ raised = NoException
    /\ calls = <<>>
    /\ call = NoCall /\ ret = NoRet
    /\ agg = NoAgg /\ prev = NoPrev

NextAgg ==
    \/ AggregatorMain
    \/ ResolveFilenames
    \/ CheckNext
    \/ PrintReports
    \/ RaiseFailure
    \/ ReportSuccess

SpecAgg == InitAgg /\ [][NextAgg]_vars

-----------------------------------------------------------------------------
(* Reading reports *)

HasMsg(output, tag) == \E i \in 1..Len(output) : output[i].tag = tag
CountMsg(output, tag) == Cardinality({i \in 1..Len(output) : output[i].tag = tag})
\* a message with this tag names this field
Names(output, tag, key) ==
    \E i \in 1..Len(output) :
        /\ output[i].tag = tag
        /\ IF tag = "type_mismatch" THEN output[i].val[1] = key
           ELSE output[i].val = key

\* the tags of the report's lines
Tags(output) == [i \in 1..Len(output) |-> output[i].tag]

\* the lines that give the result of the Name, Logo, Identity and Filename
\* states, and every line those states can write
ResultTags == {"name_ok", "name_invalid", "logo_ok", "logo_failed",
               "secp_ok", "secp_mismatch", "bls_ok", "bls_mismatch",
               "filename_ok", "filename_mismatch"}
LaterTags == ResultTags \cup {"logo_empty", "logo_scheme", "logo_fetch_failed",
                              "logo_http_status", "logo_not_image", "banner"}
Results(output) == SelectSeq(Tags(output), LAMBDA t : t \in ResultTags)

\* the file of the i-th check_filename call, and what it loads as
FileOf(i) == FileAt(dir, calls[i].filename)
Loads(i) == FileOf(i).st = "json" /\ IsDict(FileOf(i).data)
Returned(i) == calls[i].res.kind = "return"
Verdict(i) == calls[i].res.val.ok
Report(i) == calls[i].res.val.output

-----------------------------------------------------------------------------
(* Claims about check_filename and main (Spec) *)

\* C1: schema failure is terminal: for every record that loads and for
\* which check_schema returns ok = false, check_filename returns verdict
\* false, issues no logo fetch and no on-chain call, and its report holds
\* no line of the Name, Logo, Identity or Filename states.
C1_SchemaFailureTerminal ==
    \A i \in 1..Len(calls) :
        (/\ Loads(i)
         /\ CheckSchema(example, FileOf(i).data).kind = "return"
         /\ ~CheckSchema(example, FileOf(i).data).val.ok) =>
            /\ Returned(i)
            /\ ~Verdict(i)
            /\ calls[i].res.fx = <<>>
            /\ \A j \in 1..Len(Report(i)) : Report(i)[j].tag \notin LaterTags
            /\ Report(i)[Len(Report(i))].tag = "schema_failed"

\* C1's case: a record with a missing field has been validated
C1_Witness ==
    \E i \in 1..Len(calls) :
        /\ Loads(i) /\ Returned(i)
        /\ HasMsg(Report(i), "missing_field")
        /\ HasMsg(Report(i), "schema_failed")

\* C2: for every record that reaches the end of check_filename the verdict
\* is true if and only if the Schema, Name, Logo, SECP, BLS and Filename
\* results all passed, and the success banner is the last line of the
\* report if and only if the verdict is true; a load failure gives verdict
\* false and no banner.
C2_VerdictIsConjunction ==
    \A i \in 1..Len(calls) :
        Returned(i) =>
            LET out == Report(i)
            IN /\ Verdict(i) <=>
                    /\ HasMsg(out, "schema_ok") /\ ~HasMsg(out, "schema_failed")
                    /\ HasMsg(out, "name_ok") /\ ~HasMsg(out, "name_invalid")
                    /\ HasMsg(out, "logo_ok") /\ ~HasMsg(out, "logo_failed")
                    /\ HasMsg(out, "secp_ok") /\ ~HasMsg(out, "secp_mismatch")
                    /\ HasMsg(out, "bls_ok") /\ ~HasMsg(out, "bls_mismatch")
                    /\ HasMsg(out, "filename_ok")
                    /\ ~HasMsg(out, "filename_mismatch")
               /\ Verdict(i) <=> (out[Len(out)].tag = "banner")
               /\ CountMsg(out, "banner") <= 1
               /\ FileOf(i).st # "json" =>
                    ~Verdict(i) /\ ~HasMsg(out, "banner")

\* C2's case: a record passed every state and its report ends with the banner
C2_Witness ==
    \E i \in 1..Len(calls) :
        /\ Returned(i) /\ Verdict(i)
        /\ Report(i)[Len(Report(i))].tag = "banner"
        /\ HasMsg(Report(i), "filename_ok")

\* the five results of a full report, in order
FiveResults(r) ==
    /\ Len(r) = 5
    /\ r[1] \in {"name_ok", "name_invalid"}
    /\ r[2] \in {"logo_ok", "logo_failed"}
    /\ r[3] \in {"secp_ok", "secp_mismatch"}
    /\ r[4] \in {"bls_ok", "bls_mismatch"}
    /\ r[5] \in {"filename_ok", "filename_mismatch"}

\* C3: failures of the Name, Logo, Identity and Filename states are not
\* terminal: for every record that loads and passes the schema check and
\* whose on-chain read does not fail, check_filename returns, has fetched
\* the logo and read the chain, and its report carries exactly one result
\* for each of Name, Logo, SECP, BLS and Filename, in that order.
C3_LaterFailuresNotTerminal ==
    \A i \in 1..Len(calls) :
        (/\ Loads(i)
         /\ CheckSchema(example, FileOf(i).data).kind = "return"
         /\ CheckSchema(example, FileOf(i).data).val.ok
         /\ calls[i].rpc # "down") =>
            /\ Returned(i)
            /\ Asked(calls[i].res, "GET") /\ Asked(calls[i].res, "RPC")
            /\ FiveResults(Results(Report(i)))

\* C3's case: a record with an empty name fails, and its report still has
\* the Logo, Identity and Filename results
C3_Witness ==
    \E i \in 1..Len(calls) :
        /\ Returned(i) /\ ~Verdict(i)
        /\ Get(FileOf(i).data, K_name, JNone) = JStr(<<>>)
        /\ HasMsg(Report(i), "name_invalid")
        /\ HasMsg(Report(i), "logo_ok")
        /\ HasMsg(Report(i), "secp_ok") /\ HasMsg(Report(i), "bls_ok")
        /\ HasMsg(Report(i), "filename_ok")

\* C4: an oracle error aborts the batch: when get_validator_keys raises in
\* a call, that call is the last one, its exception has left main, no
\* report, failure summary or success line has been or will be produced,
\* and no step of main follows.
C4_OracleErrorAborts ==
    \A i \in 1..Len(calls) :
        calls[i].rpc = "down" =>
            /\ calls[i].res.kind = "raise"
            /\ i = Len(calls) /\ idx = i - 1
            /\ pc = "aborted"
            /\ raised.exc = calls[i].res.val[1] /\ raised.exc # "Exception"
            /\ ~HasMsg(stdout, "reports") /\ ~HasMsg(stdout, "success")
            /\ CountMsg(stdout, "checking") = i
            /\ ~ENABLED Next

\* C4's case: the on-chain read failed on the first of two files
C4_Witness ==
    /\ pc = "aborted" /\ Len(filenames) = 2 /\ Len(calls) = 1
    /\ calls[1].rpc = "down"

\* a structural error in the i-th call: the record cannot be read or
\* parsed, or the reference example is missing when the record is checked
\* against it
Structural(i) ==
    \/ FileOf(i).st # "json"
    \/ Loads(i) /\ example.st # "json"

\* C5 as first stated: a structural error on one record, a missing reference
\* example included, is terminal for that record only: the record is
\* reported as failing and the loop goes on to the next file.
C5_StructuralErrorContinues ==
    \A i \in 1..Len(calls) :
        Structural(i) =>
            /\ Returned(i) /\ ~Verdict(i)
            /\ idx >= i
            /\ \E k \in 1..Len(problems) : problems[k] = calls[i].filename
            /\ i < Len(filenames) => (Len(calls) > i \/ ENABLED CheckNext)

\* C5: a record file that cannot be read or parsed is terminal for that
\* record only: check_filename returns verdict false, the filename joins
\* the failing ones and the loop goes on to the next file; a missing
\* reference example is not: the exception of check_schema leaves
\* check_filename and main on the first record that loads, and that call
\* is the last one.
C5_LoadErrorContinues ==
    \A i \in 1..Len(calls) :
        /\ FileOf(i).st # "json" =>
            /\ Returned(i) /\ ~Verdict(i)
            /\ idx >= i
            /\ \E k \in 1..Len(problems) : problems[k] = calls[i].filename
            /\ i < Len(filenames) => (Len(calls) > i \/ ENABLED CheckNext)
        /\ (Loads(i) /\ example.st # "json") =>
            /\ calls[i].res.kind = "raise"
            /\ i = Len(calls) /\ pc = "aborted" /\ ~ENABLED Next
            /\ raised.exc = "FileNotFoundError"

\* C5's case: an unreadable or unparseable record was reported as failing
\* and the next file of the working set has been validated after it
C5_Witness ==
    \E i \in 1..Len(calls) :
        /\ FileOf(i).st # "json"
        /\ Len(calls) > i
        /\ problems # <<>> /\ problems[1] = calls[i].filename

\* the filenames whose verdict was false, in the order of the calls
Failing ==
    LET bad == SelectSeq([i \in 1..Len(calls) |-> i],
                         LAMBDA i : ~(Returned(i) /\ Verdict(i)))
    IN [k \in 1..Len(bad) |-> calls[bad[k]].filename]

Ended == pc \in {"done", "failed", "aborted"}

\* C6: a batch run in which no on-chain read fails (and the reference
\* example is in place) ends with the
\* terminating failure if and only if some file had verdict false, the
\* failure carries exactly the failing filenames in processing order,
\* otherwise the run ends with the success line; every file of the working
\* set has been validated exactly once, in list order.
C6_SummaryMatchesVerdicts ==
    (/\ Ended /\ example.st = "json"
     /\ \A i \in 1..Len(calls) : calls[i].rpc # "down") =>
        /\ [i \in 1..Len(calls) |-> calls[i].filename] = filenames
        /\ \A i \in 1..Len(calls) : Returned(i)
        /\ pc \in {"done", "failed"}
        /\ (pc = "failed") <=> (\E i \in 1..Len(calls) : ~Verdict(i))
        /\ pc = "failed" =>
                raised.exc = "Exception" /\ raised.carried = Failing
        /\ pc = "done" =>
                raised.exc = "none" /\ stdout[Len(stdout)].tag = "success"

-----------------------------------------------------------------------------
(* Claims about check_schema (SpecSchema) and check_logo (SpecLogo) *)

SchemaDone == call.fn = "check_schema" /\ ret.kind = "done"
LogoDone == call.fn = "check_logo" /\ ret.kind = "done"

\* C7: check_schema never raises: with the reference example in place, every
\* parsed input value, a JSON list, string, number or null included, gives a
\* returned (ok, messages), with ok = false and a message when the value is
\* no field mapping, and no network request is issued.
C7_SchemaNeverRaises ==
    (SchemaDone /\ call.example_file.st = "json") =>
        /\ ret.out.kind = "return"
        /\ ret.out.fx = <<>>
        /\ (~IsDict(call.arg) =>
                ~ret.out.val.ok /\ ret.out.val.output # <<>>)

\* the condition of C8 on a returned call: every field of the reference is
\* in the record with the same type
Conforms(ex, rec) ==
    \A i \in 1..Len(ex.val) :
        /\ HasKey(rec, ex.val[i][1])
        /\ Lookup(rec, ex.val[i][1]).type = ex.val[i][2].type

\* C8: check_schema returns ok = true if and only if every field of the
\* reference example is in the record with exactly the same value type;
\* the values do not matter; every missing and every mistyped reference
\* field is named in a message of its kind, every field the reference
\* lacks is named in a warning, and there is no other message.
C8_SchemaOkIffTypesMatch ==
    (SchemaDone /\ ret.out.kind = "return") =>
        LET ex == call.example_file.data
            rec == call.arg
            out == ret.out.val.output
            missing == {i \in 1..Len(ex.val) : ~HasKey(rec, ex.val[i][1])}
            mistyped == {i \in 1..Len(ex.val) :
                            /\ HasKey(rec, ex.val[i][1])
                            /\ Lookup(rec, ex.val[i][1]).type # ex.val[i][2].type}
            extra == {j \in 1..Len(rec.val) : ~HasKey(ex, rec.val[j][1])}
        IN /\ IsDict(rec)
           /\ ret.out.val.ok <=> Conforms(ex, rec)
           /\ \A i \in missing : Names(out, "missing_field", ex.val[i][1])
           /\ \A i \in mistyped : Names(out, "type_mismatch", ex.val[i][1])
           /\ \A j \in extra : Names(out, "extra_field", rec.val[j][1])
           /\ CountMsg(out, "missing_field") = Cardinality(missing)
           /\ CountMsg(out, "type_mismatch") = Cardinality(mistyped)
           /\ CountMsg(out, "extra_field") = Cardinality(extra)
           /\ Len(out) = Cardinality(missing) + Cardinality(mistyped)
                            + Cardinality(extra)

\* C8's case: ok = true for a record with a field the reference lacks and
\* with a name that is not the reference's (empty) name
C8_Witness ==
    /\ SchemaDone /\ ret.out.kind = "return" /\ ret.out.val.ok
    /\ HasKey(call.arg, K_x)
    /\ HasMsg(ret.out.val.output, "extra_field")
    /\ Lookup(call.arg, K_name) # Lookup(call.example_file.data, K_name)

\* C9: check_logo never propagates a fault: for every url value, a value
\* that is no string included, it returns (ok, messages), with ok = false
\* for an empty or non-string value.
C9_LogoNeverRaises ==
    LogoDone =>
        /\ ret.out.kind = "return"
        /\ (~IsStr(call.arg) => ~ret.out.val.ok)

\* C10: check_logo returns ok = true if and only if the url is non-empty
\* after trimming, starts with https://, the fetch completes with status
\* 200 and the content type starts with image/.  For a string url the rules
\* are evaluated independently: each failed rule leaves its own message,
\* and the fetch is attempted whatever rules 1 and 2 said.
C10_LogoOkIffAllRules ==
    LogoDone =>
        LET url == call.arg
            fetch == ret.fetch
            good == /\ IsStr(url) /\ Strip(url.val) # <<>>
                    /\ StartsWith(url.val, HttpsPrefix)
                    /\ fetch.kind = "response" /\ fetch.status = 200
                    /\ StartsWith(ContentType(fetch), ImagePrefix)
        IN /\ (ret.out.kind = "return" /\ ret.out.val.ok) <=> good
           /\ IsStr(url) =>
                LET out == ret.out.val.output
                IN /\ ret.out.kind = "return"
                   /\ ret.out.fx = <<<<"GET", url.val>>>>
                   /\ HasMsg(out, "logo_empty") <=> (Strip(url.val) = <<>>)
                   /\ HasMsg(out, "logo_scheme")
                        <=> ~StartsWith(url.val, HttpsPrefix)
                   /\ HasMsg(out, "logo_fetch_failed")
                        <=> (fetch.kind = "exception")
                   /\ HasMsg(out, "logo_http_status")
                        <=> (fetch.kind = "response" /\ fetch.status # 200)
                   /\ HasMsg(out, "logo_not_image")
                        <=> (fetch.kind = "response"
                             /\ ~StartsWith(ContentType(fetch), ImagePrefix))

\* C10's case: a wrong scheme, a 404 and a content type that is no image
\* leave three messages
C10_Witness ==
    /\ LogoDone /\ IsStr(call.arg) /\ ret.out.kind = "return"
    /\ ret.fetch.kind = "response" /\ ret.fetch.status = 404
    /\ ~ret.out.val.ok
    /\ HasMsg(ret.out.val.output, "logo_scheme")
    /\ HasMsg(ret.out.val.output, "logo_http_status")
    /\ HasMsg(ret.out.val.output, "logo_not_image")

-----------------------------------------------------------------------------
(* More claims about check_filename and main (Spec) *)

\* the part of a path after its last "/"
IsBasenameOf(b, path) ==
    \E k \in 0..Len(path) :
        /\ b = SubSeq(path, k + 1, Len(path))
        /\ \A j \in 1..Len(b) : b[j] # "/"
        /\ k = 0 \/ path[k] = "/"

\* C12: the Filename state passes if and only if the basename of the given
\* filename equals the record's secp followed by ".json", character for
\* character (no case folding, no trimming); when it fails, its message
\* shows the expected and the actual filename.
C12_FilenameIffSecpDotJson ==
    \A i \in 1..Len(calls) :
        (Returned(i) /\ Len(Results(Report(i))) = 5) =>
            LET secp == Get(FileOf(i).data, K_secp, JNone)
                expected == secp.val \o <<".", "j", "s", "o", "n">>
            IN \E actual \in {SubSeq(calls[i].filename, k, Len(calls[i].filename)) :
                                  k \in 1..Len(calls[i].filename) + 1} :
                  /\ IsBasenameOf(actual, calls[i].filename)
                  /\ IsStr(secp)
                  /\ HasMsg(Report(i), "filename_ok") <=> (actual = expected)
                  /\ HasMsg(Report(i), "filename_ok")
                        \/ Names(Report(i), "filename_mismatch", <<expected, actual>>)

\* ./ab.json passed the Filename state and AB.json (the same record, secp
\* "ab") failed it
C12_Witness ==
    \E i, j \in 1..Len(calls) :
        /\ Returned(i) /\ calls[i].filename = <<".", "/">> \o F_ab
        /\ HasMsg(Report(i), "filename_ok")
        /\ Returned(j) /\ calls[j].filename = F_AB
        /\ Names(Report(j), "filename_mismatch", <<F_ab, F_AB>>)

\* C14: load failure is terminal: when the record file cannot be read or
\* its content cannot be parsed, check_filename returns verdict false with a
\* report that holds the load error and nothing else; the Schema Checker is
\* not run (a missing reference example does not raise) and no later state
\* is: no logo fetch and no on-chain read is issued.
C14_LoadFailureTerminal ==
    \A i \in 1..Len(calls) :
        FileOf(i).st # "json" =>
            /\ Returned(i)
            /\ ~Verdict(i)
            /\ Len(Report(i)) = 1
            /\ Report(i)[1].tag = IF FileOf(i).st = "badjson" THEN "invalid_json"
                                  ELSE "read_failed"
            /\ calls[i].res.fx = <<>>
            /\ calls[i].fetch = <<>> /\ calls[i].rpc = "unasked"

\* with the reference example missing, an unparseable file and an
\* unreadable one have both been given their verdict
C14_Witness ==
    /\ example.st # "json"
    /\ \E i, j \in 1..Len(calls) :
          /\ FileOf(i).st = "badjson" /\ Returned(i) /\ ~Verdict(i)
          /\ FileOf(j).st = "ioerror" /\ Returned(j) /\ ~Verdict(j)

\* the record reports printed so far: the value of each print of line 203
Printed == SelectSeq(stdout, LAMBDA m : m.tag = "reports")

\* the calls whose report is to be printed, in processing order
Owed ==
    SelectSeq([i \in 1..Len(calls) |-> i],
              LAMBDA i : Returned(i) /\ (~Verdict(i) \/ args.verbose))

\* C18: record reports are emitted only after every file of the working set
\* has been validated, and once: in default mode exactly the reports of the
\* failing records, in verbose mode the reports of all records, in
\* processing order.  A run that an on-chain read failure has ended has
\* emitted no report and never will.
C18_ReportsOnlyAfterLoop ==
    /\ Len(Printed) <= 1
    /\ Len(Printed) = 1 <=> pc \in {"summary", "done", "failed"}
    /\ Len(Printed) = 1 =>
          /\ Len(calls) = Len(filenames)
          /\ \A i \in 1..Len(calls) : Returned(i) /\ calls[i].filename = filenames[i]
          /\ Len(Printed[1].val) = Len(Owed)
          /\ \A k \in 1..Len(Owed) : Printed[1].val[k] = Report(Owed[k])
    /\ (\E i \in 1..Len(calls) : calls[i].rpc = "down") =>
          /\ Len(Printed) = 0
          /\ pc = "aborted"
          /\ ~ENABLED Next

\* default mode: of two validated records one failed, and the one report
\* printed is its report
C18_Witness ==
    /\ ~args.verbose
    /\ Len(calls) = 2
    /\ Len(Printed) = 1 /\ Len(Printed[1].val) = 1
    /\ \E i, j \in 1..2 : Returned(i) /\ Verdict(i) /\ Returned(j) /\ ~Verdict(j)

-----------------------------------------------------------------------------
(* Claims about read_validators (SpecRead) *)

\* read_validators has been called and has ended
ReadEnded == call.fn = "read_validators" /\ ret.kind = "done"

\* the file is no record the aggregator can take in: it cannot be read or
\* parsed, its JSON is no object, or its name is no string
Malformed(file) ==
    \/ file.st # "json"
    \/ ~IsDict(file.data)
    \/ HasKey(file.data, K_name) /\ ~IsStr(Lookup(file.data, K_name))

\* the secp a record is entered under
SecpOf(file) == Get(file.data, K_secp, JStr(<<>>))

\* C11: read_validators never aborts on a bad record file: whatever the
\* directory holds, it returns; every malformed file (unparseable,
\* unreadable, JSON that is no object, a name that is no string) has its
\* warning, and the mapping holds the secp of every other file and no more.
C11_NeverAbortsOnBadFile ==
    ReadEnded =>
        LET d == call.directory
            files == {ret.json_files[i] : i \in 1..Len(ret.json_files)}
        IN /\ ret.out.kind = "return"
           /\ \A f \in files :
                 Malformed(d[f]) <=> \E i \in 1..Len(ret.out.stdout) :
                                        ret.out.stdout[i] = Msg("warning", f)
           /\ {ret.out.val[i][1] : i \in 1..Len(ret.out.val)}
                 = {SecpOf(d[f]) : f \in {g \in files : ~Malformed(d[g])}}

\* the record the mapping is to hold for a record file: the file's record,
\* its name being its secp when the name is missing or empty after trimming
IsEntryOf(got, rec) ==
    LET fields(r) == {r.val[i][1] : i \in 1..Len(r.val)}
        unnamed == ~HasKey(rec, K_name) \/ Strip(Lookup(rec, K_name).val) = <<>>
    IN /\ IsDict(got)
       /\ fields(got) = fields(rec) \cup {K_name}
       /\ \A k \in fields(rec) \ {K_name} : Lookup(got, k) = Lookup(rec, k)
       /\ Lookup(got, K_name) = IF unnamed THEN Get(rec, K_secp, JStr(<<>>))
                                ELSE Lookup(rec, K_name)

\* C13: read_validators returns a mapping that holds one entry for every
\* secp that occurs in a parseable record file of the directory and no
\* other entry; the entry of a secp is the record of the last-processed
\* file with that secp (a later record overwrites an earlier one), with the
\* name replaced by the secp when the name is missing or empty after
\* trimming and left unchanged otherwise.
C13_LastRecordPerSecp ==
    ReadEnded =>
        LET d == call.directory
            order == ret.json_files
            mapping == ret.out.val
            parsed == {i \in 1..Len(order) : d[order[i]].st = "json"}
            lastOf(secp) == {i \in parsed :
                               /\ SecpOf(d[order[i]]) = secp
                               /\ \A j \in parsed :
                                     j > i => SecpOf(d[order[j]]) # secp}
        IN /\ ret.out.kind = "return"
           /\ {order[i] : i \in 1..Len(order)} = GlobJson(d)
           /\ \A i \in parsed :
                 \E k \in 1..Len(mapping) : mapping[k][1] = SecpOf(d[order[i]])
           /\ \A k, l \in 1..Len(mapping) : mapping[k][1] = mapping[l][1] => k = l
           /\ \A k \in 1..Len(mapping) :
                 \E i \in lastOf(mapping[k][1]) :
                     IsEntryOf(mapping[k][2], d[order[i]].data)

-----------------------------------------------------------------------------
(* Claims about the aggregator and the batch run after it (SpecAgg) *)

\* the validator record files of a network directory that parse
RecordFiles(d, network) ==
    {f \in GlobJson(d) \ {Artifact(network)} : d[f].st = "json"}

\* the artifact of the network is a mapping with one entry per secp of the
\* validator record files, each entry being the record of such a file
ArtifactOfRecords(d, network) ==
    LET art == d[Artifact(network)]
        keys == {art.data.val[i][1] : i \in 1..Len(art.data.val)}
    IN /\ art.st = "json" /\ IsDict(art.data)
       /\ keys = {SecpOf(d[f]).val : f \in RecordFiles(d, network)}
       /\ \A k \in keys :
             \E f \in RecordFiles(d, network) :
                 /\ SecpOf(d[f]).val = k
                 /\ IsEntryOf(Lookup(art.data, k), d[f].data)

\* C15: re-running the aggregator on an unchanged set of validator record
\* files is idempotent: after any number of runs that ended, the artifact
\* of each network is a mapping with exactly one entry per distinct secp of
\* the validator record files, each value being that record, and no entry
\* comes from an artifact written before.
C15_RerunIdempotent ==
    agg.status = "ok" =>
        /\ ArtifactOfRecords(dir, NETWORK)
        /\ ArtifactOfRecords(testnet, TESTNET)

\* the scan's working set and verdicts are those of the validator records
ScanOfRecordsOnly ==
    /\ filenames = GetAllFilenames(Restrict(dir, DOMAIN dir \ {Artifact(NETWORK)}))
    /\ (/\ pc \in {"done", "failed"}
        /\ \A i \in 1..Len(calls) :
              calls[i].filename # Artifact(NETWORK) => Verdict(i))
          => pc = "done" /\ problems = <<>>

\* C16: the two pipelines do not interfere: after the aggregator has run on
\* the network directory, a full-directory scan has the working file set it
\* had before, and a directory whose validator records all pass ends in
\* overall success with no failing filename.
C16_PipelinesDoNotInterfere ==
    (agg.runs > 0 /\ ~args.given /\ pc \notin {"start", "idle"}) => ScanOfRecordsOnly

-----------------------------------------------------------------------------
(* Claims about two runs on permuted lists (SpecPerm) *)

\* two check_filename calls ended alike: same verdict and report, or the
\* same exception
SameResult(a, b) ==
    /\ a.res.kind = b.res.kind
    /\ a.res.val = b.res.val

\* the web and the RPC endpoint answered the requests for a file alike
SameAnswers(a, b) == a.fetch = b.fetch /\ a.rpc = b.rpc

\* both runs have ended, no on-chain read failed in either, and a file's
\* requests were answered alike in both
ComparableRuns ==
    /\ prev.pc # "none" /\ pc \in {"done", "failed", "aborted"}
    /\ \A i \in 1..Len(prev.calls) : prev.calls[i].rpc # "down"
    /\ \A j \in 1..Len(calls) : calls[j].rpc # "down"
    /\ \A i \in 1..Len(prev.calls), j \in 1..Len(calls) :
          prev.calls[i].filename = calls[j].filename
              => SameAnswers(prev.calls[i], calls[j])

\* C17: record validation is independent of its siblings: for a working
\* file set and a permutation of it, when no on-chain read fails, each file
\* gets the same verdict and the same report in both processing orders,
\* and the failing filenames are the same set.
C17_OrderIndependent ==
    ComparableRuns =>
        /\ \A i \in 1..Len(prev.calls) :
              \E j \in 1..Len(calls) :
                  /\ calls[j].filename = prev.calls[i].filename
                  /\ SameResult(calls[j], prev.calls[i])
        /\ \A j \in 1..Len(calls) :
              \E i \in 1..Len(prev.calls) :
                  /\ calls[j].filename = prev.calls[i].filename
                  /\ SameResult(calls[j], prev.calls[i])
        /\ {problems[i] : i \in 1..Len(problems)}
              = {prev.problems[i] : i \in 1..Len(prev.problems)}

====
